---- MODULE Spec2Model ----
(***************************************************************************)
(* Model of multilspy's Ruby adapter, RubyLSP                              *)
(* (src/multilspy/language_servers/ruby_lsp/ruby_lsp.py):                   *)
(*   - setup_runtime_dependencies, the bootstrap of the ruby-lsp gem        *)
(*     (specification SpecBoot),                                           *)
(*   - _get_initialize_params, the initialize template substitution        *)
(*     (specification SpecParams),                                         *)
(*   - start_server, the scoped session: handler registration, process     *)
(*     start, initialize/initialized handshake, readiness wait, scope      *)
(*     body, shutdown and stop (specification Spec).                       *)
(* start_server is an asyncio coroutine: the code between two awaits runs  *)
(* atomically, and the connection's reader dispatches inbound messages to  *)
(* the registered handlers while the coroutine is suspended.               *)
(***************************************************************************)
EXTENDS Naturals, Sequences, FiniteSets, TLC

VARIABLES
    \* ---- start_server (one adapter instance) ----
    pc,                    \* position of the start_server coroutine
    session,               \* number of times start_server has been entered
    earlier,               \* how the session before the current one ended
    handlers,              \* self.server's handler registry: methods registered
    procState,             \* child process of the current session
    leaked,                \* children of earlier sessions that were left running
    initReq,               \* the initialize request of the current session
    initializedSent,       \* the initialized notification has been sent
    completions_available, \* self.completions_available (line 166)
    server_ready,          \* self.server_ready, the asyncio.Event of line 45
    shutdownReq,           \* the shutdown request of the current session
    exitSent,              \* the exit notification has been sent
    raised,                \* the error that left start_server, "none" if none
    procAtRaise,           \* whether the child was already started when it was raised
    bodyEntered,           \* the scope body of the current session was reached
    markerSeen,            \* matching log messages dispatched in this session
    inbound,               \* inbound messages dispatched in this session
    lastInbound,           \* what the last dispatched inbound message was
    lastReply,             \* the reply given to the last inbound request
    markerAt,              \* where the coroutine was at the session's first marker
    unhandled,             \* an inbound message found no registered handler
    queries,               \* queries issued by the scope body
    \* ---- setup_runtime_dependencies (the installation directory) ----
    dirExists,             \* os.path.exists(self.ruby_ls_dir)
    manifest,              \* the content of runtime_dependencies.json
    execCount,             \* how often each manifest command has been executed
    invocations,           \* invocations of setup_runtime_dependencies so far
    bootResult,            \* outcome of the last invocation
    bootSpawns,            \* processes spawned by the last invocation
    bootFoundDir,          \* the last invocation found the directory existing
    bootEnv,               \* the host: its platform, and whether the last
                           \* invocation found bundle and gem on PATH
    failedAt,              \* the install command that exited non-zero, 0 if none
    \* ---- _get_initialize_params ----
    template,              \* the content of initialize_params.json
    repoPath,              \* repository_absolute_path, as its components
    paramsResult,          \* what _get_initialize_params returned or raised
    \* ---- start_server entered by two callers on one instance ----
    cpc,                   \* position of each caller's start_server coroutine
    cproc,                 \* the child process self.server holds
    cready,                \* self.server_ready
    cstarts                \* how often self.server.start() has run

sessionVars == <<pc, session, earlier, handlers, procState, leaked, initReq, initializedSent,
                 completions_available, server_ready, shutdownReq, exitSent, raised,
                 procAtRaise, bodyEntered, markerSeen, inbound, lastInbound, lastReply, markerAt,
                 unhandled, queries>>
bootVars == <<dirExists, manifest, execCount, invocations, bootResult,
              bootSpawns, bootFoundDir, bootEnv, failedAt>>
paramVars == <<template, repoPath, paramsResult>>
sharedVars == <<cpc, cproc, cready, cstarts>>
vars == <<sessionVars, bootVars, paramVars, sharedVars>>

(***************************************************************************)
(* Bounds of the model.                                                    *)
(***************************************************************************)
MaxSessions == 2      \* entries into start_server on the one instance
MaxInbound == 3       \* inbound messages dispatched per session
MaxQueries == 1       \* queries issued per scope body
MaxMsgLen == 2        \* words in a window/logMessage text
MaxDeps == 2          \* commands in the runtime dependency manifest
MaxInvocations == 3   \* invocations of setup_runtime_dependencies
MaxDepth == 2         \* components of the repository path

(***************************************************************************)
(* _get_initialize_params (lines 94-118).                                  *)
(***************************************************************************)
Missing == "<missing>"          \* the key is absent from the JSON object
ProcessId == "os.getpid()"

\* A path is the sequence of its components; PathStr is its text.
RECURSIVE PathStr(_)
PathStr(p) == IF p = <<>> THEN "" ELSE "/" \o Head(p) \o PathStr(Tail(p))

\* pathlib.Path(p).as_uri() of an absolute POSIX path.
AsUri(p) == "file://" \o (IF p = <<>> THEN "/" ELSE PathStr(p))

\* os.path.basename(p)
Basename(p) == IF p = <<>> THEN "" ELSE p[Len(p)]

\* str(p) of an absolute path
AbsPath(p) == IF p = <<>> THEN "/" ELSE PathStr(p)

Raise(e) == [ok |-> FALSE, error |-> e]
Return(d) == [ok |-> TRUE, d |-> d]

\* GetInitializeParams with the assertion of line 114 left out.
GetInitializeParamsUnchecked(t, p) ==
    IF t.description = Missing THEN Raise("KeyError")
    ELSE IF t.rootPath = Missing THEN Raise("KeyError")
    ELSE IF t.rootPath # "$rootPath" THEN Raise("AssertionError")
    ELSE IF t.rootUri = Missing THEN Raise("KeyError")
    ELSE IF t.rootUri # "$rootUri" THEN Raise("AssertionError")
    ELSE IF t.wfUri = Missing THEN Raise("KeyError")
    ELSE IF t.wfUri # "$uri" THEN Raise("AssertionError")
    ELSE Return([description |-> Missing,
                 processId |-> ProcessId,
                 rootPath |-> AbsPath(p),
                 rootUri |-> AsUri(p),
                 wfUri |-> AsUri(p),
                 wfName |-> Basename(p)])

\* The body of _get_initialize_params on the loaded JSON object t.
GetInitializeParams(t, p) ==
    IF t.description = Missing THEN Raise("KeyError")
    ELSE IF t.rootPath = Missing THEN Raise("KeyError")
    ELSE IF t.rootPath # "$rootPath" THEN Raise("AssertionError")
    ELSE IF t.rootUri = Missing THEN Raise("KeyError")
    ELSE IF t.rootUri # "$rootUri" THEN Raise("AssertionError")
    ELSE IF t.wfUri = Missing THEN Raise("KeyError")
    ELSE IF t.wfUri # "$uri" THEN Raise("AssertionError")
    ELSE IF t.wfName = Missing THEN Raise("KeyError")
    ELSE IF t.wfName # "$name" THEN Raise("AssertionError")
    ELSE Return([description |-> Missing,
                 processId |-> ProcessId,
                 rootPath |-> AbsPath(p),
                 rootUri |-> AsUri(p),
                 wfUri |-> AsUri(p),
                 wfName |-> Basename(p)])

\* The contents initialize_params.json can have: every field holds its sentinel,
\* is absent, holds another field's sentinel, or holds an already substituted value.
Sentinels == {"$rootPath", "$rootUri", "$uri", "$name"}
Templates == [description : {"doc", Missing},
              rootPath : {"$rootPath", Missing, "/repo", "$rootUri"},
              rootUri : {"$rootUri", Missing, "file:///repo"},
              wfUri : {"$uri", Missing, "file:///repo"},
              wfName : {"$name", Missing, "repo"}]
ShippedTemplate == [description |-> "doc", rootPath |-> "$rootPath",
                    rootUri |-> "$rootUri", wfUri |-> "$uri", wfName |-> "$name"]

Components == {"home", "repo"}
RepoPaths == UNION {[1..n -> Components] : n \in 0..MaxDepth}

InitParams ==
    /\ template \in Templates
    /\ repoPath \in RepoPaths
    /\ paramsResult = [ok |-> FALSE, error |-> "not called"]

IdleParams ==
    /\ template = ShippedTemplate
    /\ repoPath = <<"repo">>
    /\ paramsResult = [ok |-> FALSE, error |-> "not called"]

\* One call of _get_initialize_params(repository_absolute_path).
BuildParams ==
    /\ paramsResult = [ok |-> FALSE, error |-> "not called"]
    /\ paramsResult' = GetInitializeParams(template, repoPath)
    /\ UNCHANGED <<template, repoPath, sessionVars, bootVars, sharedVars>>

(***************************************************************************)
(* start_server (lines 120-172).                                           *)
(***************************************************************************)
\* InterceptedMethods with the registration of line 149 left out.
InterceptedMethodsWithoutProgress ==
    {"window/logMessage", "workspace/executeClientCommand",
     "textDocument/publishDiagnostics"}

\* Methods registered by lines 146-151.
InterceptedMethods ==
    {"window/logMessage", "workspace/executeClientCommand", "$/progress",
     "textDocument/publishDiagnostics"}

\* "Finished" in msg["message"] (line 143), the text taken as its words.
Marker == "Finished"
Words == {"Finished", "Indexing", "error"}
Messages == UNION {[1..n -> Words] : n \in 0..MaxMsgLen}
ContainsMarker(msg) == \E i \in 1..Len(msg) : msg[i] = Marker

\* self.repository_root_path of the instance
RepositoryRootPath == <<"home", "repo">>

InitSession ==
    /\ pc = "unstarted"
    /\ session = 0
    /\ earlier = "none"
    /\ handlers = {}
    /\ procState = "none"
    /\ leaked = 0
    /\ initReq = "unsent"
    /\ initializedSent = FALSE
    /\ completions_available = FALSE
    /\ server_ready = FALSE
    /\ shutdownReq = "unsent"
    /\ exitSent = FALSE
    /\ raised = "none"
    /\ procAtRaise = FALSE
    /\ bodyEntered = FALSE
    /\ markerSeen = 0
    /\ inbound = 0
    /\ lastInbound = "none"
    /\ lastReply = "none"
    /\ markerAt = "none"
    /\ unhandled = FALSE
    /\ queries = 0

\* The error e leaves start_server: nothing catches it (no try/finally in
\* lines 153-172), so no later line of the coroutine runs. The base class's
\* scope of line 153 is taken to stop nothing itself: the shutdown and the
\* stop are written out in lines 171-172.
Propagate(e) ==
    /\ pc' = "raised"
    /\ raised' = e
    /\ procAtRaise' = (procState # "none")

\* lines 146-151: entering the scope registers the handlers.
RegisterHandlers ==
    /\ pc \in {"unstarted", "done", "raised"}
    /\ session < MaxSessions
    /\ session' = session + 1
    /\ earlier' = (IF pc = "unstarted" THEN "none" ELSE pc)
    /\ handlers' = handlers \cup InterceptedMethods
    /\ pc' = "registered"
    /\ leaked' = IF procState = "running" THEN leaked + 1 ELSE leaked
    /\ procState' = "none"
    /\ initReq' = "unsent"
    /\ initializedSent' = FALSE
    /\ shutdownReq' = "unsent"
    /\ exitSent' = FALSE
    /\ raised' = "none"
    /\ procAtRaise' = FALSE
    /\ bodyEntered' = FALSE
    /\ markerSeen' = 0
    /\ inbound' = 0
    /\ lastInbound' = "none"
    /\ lastReply' = "none"
    /\ markerAt' = "none"
    /\ queries' = 0
    /\ UNCHANGED <<completions_available, server_ready, unhandled, bootVars, paramVars, sharedVars>>

\* lines 153-155: the base scope is entered and the server process started.
ServerStart ==
    /\ pc = "registered"
    /\ procState' = "running"
    /\ pc' = "started"
    /\ UNCHANGED <<session, earlier, handlers, leaked, initReq, initializedSent,
                   completions_available, server_ready, shutdownReq, exitSent, raised,
                   procAtRaise, bodyEntered, markerSeen, inbound, lastInbound, lastReply, markerAt,
                   unhandled, queries, bootVars, paramVars, sharedVars>>

\* lines 156-163: the parameters are built from the template file as it is
\* now and the initialize request is sent; the coroutine awaits the response.
SendInitialize ==
    /\ pc = "started"
    /\ \E t \in Templates :
         LET r == GetInitializeParams(t, RepositoryRootPath) IN
           IF r.ok
           THEN /\ initReq' = "pending"
                /\ pc' = "awaitInitialize"
                /\ UNCHANGED <<raised, procAtRaise>>
           ELSE /\ Propagate(r.error)
                /\ UNCHANGED initReq
    /\ UNCHANGED <<session, earlier, handlers, procState, leaked, initializedSent,
                   completions_available, server_ready, shutdownReq, exitSent,
                   bodyEntered, markerSeen, inbound, lastInbound, lastReply, markerAt, unhandled, queries,
                   bootVars, paramVars, sharedVars>>

\* line 163: the server's response to initialize arrives.
InitializeResponse ==
    /\ pc = "awaitInitialize"
    /\ procState = "running"
    /\ initReq' = "responded"
    /\ pc' = "gotResponse"
    /\ UNCHANGED <<session, earlier, handlers, procState, leaked, initializedSent,
                   completions_available, server_ready, shutdownReq, exitSent, raised,
                   procAtRaise, bodyEntered, markerSeen, inbound, lastInbound, lastReply, markerAt,
                   unhandled, queries, bootVars, paramVars, sharedVars>>

\* line 163: the server answers initialize with an error; the await raises
\* (the connection's contract: an error response fails the request).
InitializeError ==
    /\ pc = "awaitInitialize"
    /\ procState = "running"
    /\ initReq' = "error"
    /\ Propagate("InitializeError")
    /\ UNCHANGED <<session, earlier, handlers, procState, leaked, initializedSent,
                   completions_available, server_ready, shutdownReq, exitSent,
                   bodyEntered, markerSeen, inbound, lastInbound, lastReply, markerAt, unhandled, queries,
                   bootVars, paramVars, sharedVars>>

\* InitializeTimeout with the timeout swallowed: the handshake goes on as if
\* the response had arrived.
InitializeTimeoutIgnored ==
    /\ pc = "awaitInitialize"
    /\ initReq' = "timeout"
    /\ pc' = "gotResponse"
    /\ UNCHANGED <<raised, procAtRaise>>
    /\ UNCHANGED <<session, earlier, handlers, procState, leaked, initializedSent,
                   completions_available, server_ready, shutdownReq, exitSent,
                   bodyEntered, markerSeen, inbound, lastInbound, lastReply, markerAt,
                   unhandled, queries, bootVars, paramVars, sharedVars>>

\* line 163: the wait for the initialize response is bounded; when the bound
\* passes without a response the await raises (the connection's contract).
InitializeTimeout ==
    /\ pc = "awaitInitialize"
    /\ initReq' = "timeout"
    /\ Propagate("TimeoutError")
    /\ UNCHANGED <<session, earlier, handlers, procState, leaked, initializedSent,
                   completions_available, server_ready, shutdownReq, exitSent,
                   bodyEntered, markerSeen, inbound, lastInbound, lastReply, markerAt,
                   unhandled, queries, bootVars, paramVars, sharedVars>>

\* NotifyInitialized with the await of line 163 left out: initialized is sent
\* while the initialize request is still pending.
NotifyInitializedEarly ==
    /\ pc = "awaitInitialize"
    /\ initializedSent' = TRUE
    /\ completions_available' = TRUE
    /\ pc' = "awaitReady"
    /\ UNCHANGED <<session, earlier, handlers, procState, leaked, initReq, server_ready,
                   shutdownReq, exitSent, raised, procAtRaise, bodyEntered, markerSeen,
                   inbound, lastInbound, lastReply, markerAt, unhandled, queries, bootVars, paramVars, sharedVars>>

\* lines 165-168: initialized is sent, completions_available set, and the
\* coroutine starts waiting for server_ready.
NotifyInitialized ==
    /\ pc = "gotResponse"
    /\ initializedSent' = TRUE
    /\ completions_available' = TRUE
    /\ pc' = "awaitReady"
    /\ UNCHANGED <<session, earlier, handlers, procState, leaked, initReq, server_ready,
                   shutdownReq, exitSent, raised, procAtRaise, bodyEntered, markerSeen,
                   inbound, lastInbound, lastReply, markerAt, unhandled, queries, bootVars, paramVars, sharedVars>>

\* ServerReadyWait with the wait of line 168 left out.
ServerReadyNoWait ==
    /\ pc = "awaitReady"
    /\ pc' = "body"
    /\ bodyEntered' = TRUE
    /\ UNCHANGED <<session, earlier, handlers, procState, leaked, initReq, initializedSent,
                   completions_available, server_ready, shutdownReq, exitSent, raised,
                   procAtRaise, markerSeen, inbound, lastInbound, lastReply, markerAt, unhandled, queries,
                   bootVars, paramVars, sharedVars>>

\* ServerReadyWait that is released only by a marker dispatched while it was
\* already waiting (a wake-up sent earlier is lost).
ServerReadyWaitEdge ==
    /\ pc = "awaitReady"
    /\ server_ready
    /\ markerAt \in {"none", "awaitReady"}
    /\ pc' = "body"
    /\ bodyEntered' = TRUE
    /\ UNCHANGED <<session, earlier, handlers, procState, leaked, initReq, initializedSent,
                   completions_available, server_ready, shutdownReq, exitSent, raised,
                   procAtRaise, markerSeen, inbound, lastInbound, lastReply, markerAt,
                   unhandled, queries, bootVars, paramVars, sharedVars>>

\* lines 168-169: server_ready.wait() returns and the scope body is entered.
ServerReadyWait ==
    /\ pc = "awaitReady"
    /\ server_ready
    /\ pc' = "body"
    /\ bodyEntered' = TRUE
    /\ UNCHANGED <<session, earlier, handlers, procState, leaked, initReq, initializedSent,
                   completions_available, server_ready, shutdownReq, exitSent, raised,
                   procAtRaise, markerSeen, inbound, lastInbound, lastReply, markerAt, unhandled, queries,
                   bootVars, paramVars, sharedVars>>

\* the scope body issues request_references / request_definition (test, lines 27-31)
Query ==
    /\ pc = "body"
    /\ queries < MaxQueries
    /\ queries' = queries + 1
    /\ UNCHANGED <<pc, session, earlier, handlers, procState, leaked, initReq, initializedSent,
                   completions_available, server_ready, shutdownReq, exitSent, raised,
                   procAtRaise, bodyEntered, markerSeen, inbound, lastInbound, lastReply, markerAt,
                   unhandled, bootVars, paramVars, sharedVars>>

\* lines 169-171: the body completes; the shutdown request is sent and awaited.
BodyReturn ==
    /\ pc = "body"
    /\ shutdownReq' = "pending"
    /\ pc' = "awaitShutdown"
    /\ UNCHANGED <<session, earlier, handlers, procState, leaked, initReq, initializedSent,
                   completions_available, server_ready, exitSent, raised, procAtRaise,
                   bodyEntered, markerSeen, inbound, lastInbound, lastReply, markerAt, unhandled, queries,
                   bootVars, paramVars, sharedVars>>

\* line 169: the body raises; the error is thrown into the generator at the
\* yield, which has no try/finally around it.
BodyRaise ==
    /\ pc = "body"
    /\ Propagate("BodyError")
    /\ UNCHANGED <<session, earlier, handlers, procState, leaked, initReq, initializedSent,
                   completions_available, server_ready, shutdownReq, exitSent,
                   bodyEntered, markerSeen, inbound, lastInbound, lastReply, markerAt, unhandled, queries,
                   bootVars, paramVars, sharedVars>>

\* line 171: server.shutdown(): the shutdown request is acknowledged and
\* exit is notified (the connection's contract for shutdown).
ShutdownAck ==
    /\ pc = "awaitShutdown"
    /\ procState = "running"
    /\ shutdownReq' = "acked"
    /\ exitSent' = TRUE
    /\ pc' = "stopping"
    /\ UNCHANGED <<session, earlier, handlers, procState, leaked, initReq, initializedSent,
                   completions_available, server_ready, raised, procAtRaise,
                   bodyEntered, markerSeen, inbound, lastInbound, lastReply, markerAt, unhandled, queries,
                   bootVars, paramVars, sharedVars>>

\* line 171: the server answers shutdown with an error; the await raises and
\* line 172 is not reached.
ShutdownError ==
    /\ pc = "awaitShutdown"
    /\ procState = "running"
    /\ shutdownReq' = "error"
    /\ Propagate("ShutdownError")
    /\ UNCHANGED <<session, earlier, handlers, procState, leaked, initReq,
                   initializedSent, completions_available, server_ready, exitSent,
                   bodyEntered, markerSeen, inbound, lastInbound, lastReply, markerAt,
                   unhandled, queries, bootVars, paramVars, sharedVars>>

\* line 171: the wait for the shutdown acknowledgement is bounded; when the
\* bound passes the await raises and line 172 is not reached.
ShutdownTimeout ==
    /\ pc = "awaitShutdown"
    /\ shutdownReq' = "timeout"
    /\ Propagate("TimeoutError")
    /\ UNCHANGED <<session, earlier, handlers, procState, leaked, initReq,
                   initializedSent, completions_available, server_ready, exitSent,
                   bodyEntered, markerSeen, inbound, lastInbound, lastReply, markerAt,
                   unhandled, queries, bootVars, paramVars, sharedVars>>

\* ServerStop with the await of line 171 left out: the process is stopped
\* while the shutdown request is still pending.
ServerStopEarly ==
    /\ pc \in {"awaitShutdown", "stopping"}
    /\ procState' = "stopped"
    /\ pc' = "done"
    /\ UNCHANGED <<session, earlier, handlers, leaked, initReq, initializedSent,
                   completions_available, server_ready, shutdownReq, exitSent, raised,
                   procAtRaise, bodyEntered, markerSeen, inbound, lastInbound,
                   lastReply, markerAt, unhandled, queries, bootVars, paramVars, sharedVars>>

\* line 172: the process is stopped and the scope is left.
ServerStop ==
    /\ pc = "stopping"
    /\ procState' = "stopped"
    /\ pc' = "done"
    /\ UNCHANGED <<session, earlier, handlers, leaked, initReq, initializedSent,
                   completions_available, server_ready, shutdownReq, exitSent, raised,
                   procAtRaise, bodyEntered, markerSeen, inbound, lastInbound, lastReply, markerAt,
                   unhandled, queries, bootVars, paramVars, sharedVars>>

\* The child process ends on its own.
ProcessExit ==
    /\ procState = "running"
    /\ procState' = "exited"
    /\ UNCHANGED <<pc, session, earlier, handlers, leaked, initReq, initializedSent,
                   completions_available, server_ready, shutdownReq, exitSent, raised,
                   procAtRaise, bodyEntered, markerSeen, inbound, lastInbound, lastReply, markerAt,
                   unhandled, queries, bootVars, paramVars, sharedVars>>

\* window_log_message clearing the event on a message without the marker.
window_log_message_overwrite(ready, msg) == ContainsMarker(msg)

\* lines 141-144: window_log_message, as its effect on server_ready.
window_log_message(ready, msg) == IF ContainsMarker(msg) THEN TRUE ELSE ready

\* The live process sends an inbound message of method m; the connection
\* dispatches it to the handler registered for m, if there is one.
Dispatched(m, kind) ==
    /\ procState = "running"
    /\ inbound < MaxInbound
    /\ inbound' = inbound + 1
    /\ lastInbound' = kind
    /\ unhandled' = (unhandled \/ m \notin handlers)
    /\ UNCHANGED <<pc, session, earlier, handlers, procState, leaked, initReq, initializedSent,
                   completions_available, shutdownReq, exitSent, raised, procAtRaise,
                   bodyEntered, queries, bootVars, paramVars, sharedVars>>

\* window/logMessage -> window_log_message (lines 141-146)
LogMessage ==
    \E msg \in Messages :
      /\ Dispatched("window/logMessage",
                    IF ContainsMarker(msg) THEN "log+" ELSE "log-")
      /\ IF "window/logMessage" \in handlers
         THEN /\ server_ready' = window_log_message(server_ready, msg)
              /\ markerSeen' = IF ContainsMarker(msg) THEN markerSeen + 1 ELSE markerSeen
              /\ markerAt' = IF ContainsMarker(msg) /\ markerSeen = 0 THEN pc ELSE markerAt
         ELSE UNCHANGED <<server_ready, markerSeen, markerAt>>
      /\ UNCHANGED lastReply

\* Progress with a handler that takes any progress report as readiness.
ProgressSetsReady ==
    /\ Dispatched("$/progress", "progress")
    /\ server_ready' = TRUE
    /\ UNCHANGED <<markerSeen, markerAt, lastReply>>

\* $/progress -> do_nothing (lines 138-139, 149)
Progress ==
    /\ Dispatched("$/progress", "progress")
    /\ UNCHANGED <<server_ready, markerSeen, markerAt, lastReply>>

\* textDocument/publishDiagnostics -> do_nothing (lines 138-139, 150-151)
PublishDiagnostics ==
    /\ Dispatched("textDocument/publishDiagnostics", "diagnostics")
    /\ UNCHANGED <<server_ready, markerSeen, markerAt, lastReply>>

\* lines 135-136: execute_client_command_handler returns the empty list.
execute_client_command_handler == <<>>

\* workspace/executeClientCommand -> execute_client_command_handler, which
\* replies [] (lines 135-136, 147-148)
ExecuteClientCommand ==
    /\ Dispatched("workspace/executeClientCommand", "executeClientCommand")
    /\ lastReply' = IF "workspace/executeClientCommand" \in handlers
                    THEN execute_client_command_handler
                    ELSE lastReply
    /\ UNCHANGED <<server_ready, markerSeen, markerAt>>

(***************************************************************************)
(* setup_runtime_dependencies (lines 47-92).                               *)
(***************************************************************************)
ValidPlatforms == {"LINUX_x64", "LINUX_arm64", "OSX", "OSX_x64", "OSX_arm64",
                   "WIN_x64", "WIN_arm64"}
Platforms == ValidPlatforms \cup {"LINUX_x86", "WIN_x86"}
RubyLspCommand == "bundle exec ruby-lsp"

\* The manifest's commands, in order.
AllCommands == [i \in 1..MaxDeps |-> i]
Manifests == [description : {"doc", Missing},
              deps : {SubSeq(AllCommands, 1, n) : n \in 0..MaxDeps}]

\* RunDependencies without check=True: a non-zero exit is ignored and the
\* remaining commands run.
RECURSIVE RunDependenciesNoCheck(_, _, _, _)
RunDependenciesNoCheck(deps, i, failAt, counts) ==
    IF i > Len(deps) THEN [ok |-> TRUE, counts |-> counts, spawns |-> i - 1]
    ELSE RunDependenciesNoCheck(deps, i + 1, failAt, [counts EXCEPT ![i] = @ + 1])

\* lines 81-91: the commands run in order; check=True raises at the first
\* one that exits non-zero. failAt is the index of that command, 0 if none.
RECURSIVE RunDependencies(_, _, _, _)
RunDependencies(deps, i, failAt, counts) ==
    IF i > Len(deps) THEN [ok |-> TRUE, counts |-> counts, spawns |-> i - 1]
    ELSE LET ran == [counts EXCEPT ![i] = @ + 1] IN
         IF i = failAt THEN [ok |-> FALSE, counts |-> ran, spawns |-> i]
         ELSE RunDependencies(deps, i + 1, failAt, ran)

InitBoot ==
    /\ dirExists \in BOOLEAN
    /\ manifest \in Manifests
    /\ execCount = [i \in 1..MaxDeps |-> 0]
    /\ invocations = 0
    /\ bootResult = "not called"
    /\ bootSpawns = 0
    /\ bootFoundDir = FALSE
    /\ bootEnv \in [platform : Platforms, hasBundle : {FALSE}, hasGem : {FALSE}]
    /\ failedAt = 0

IdleBoot ==
    /\ dirExists = TRUE
    /\ manifest = [description |-> "doc", deps |-> AllCommands]
    /\ execCount = [i \in 1..MaxDeps |-> 0]
    /\ invocations = 0
    /\ bootResult = "not called"
    /\ bootSpawns = 0
    /\ bootFoundDir = FALSE
    /\ bootEnv = [platform |-> "LINUX_x64", hasBundle |-> FALSE, hasGem |-> FALSE]
    /\ failedAt = 0

\* An invocation ending before line 79 with the error e.
BootFails(e) ==
    /\ bootResult' = e
    /\ bootSpawns' = 0
    /\ bootFoundDir' = FALSE
    /\ UNCHANGED <<dirExists, execCount, failedAt>>

\* InstallOrSkip with the os.path.exists test of line 79 left out.
InstallAlways(failAt) ==
    LET run == RunDependencies(manifest.deps, 1, failAt, execCount) IN
    /\ dirExists' = TRUE
    /\ execCount' = run.counts
    /\ bootSpawns' = run.spawns
    /\ bootFoundDir' = dirExists
    /\ failedAt' = IF failAt \in 1..Len(manifest.deps) THEN failAt ELSE failedAt
    /\ bootResult' = IF run.ok THEN RubyLspCommand ELSE "CalledProcessError"

\* lines 79-92, once the checks of lines 51-76 have passed
InstallOrSkip(failAt) ==
    IF dirExists
    THEN /\ bootResult' = RubyLspCommand
         /\ bootSpawns' = 0
         /\ bootFoundDir' = TRUE
         /\ UNCHANGED <<dirExists, execCount, failedAt>>
    ELSE LET run == RunDependencies(manifest.deps, 1, failAt, execCount) IN
         /\ dirExists' = TRUE
         /\ execCount' = run.counts
         /\ bootSpawns' = run.spawns
         /\ bootFoundDir' = FALSE
         /\ failedAt' = IF failAt \in 1..Len(manifest.deps) THEN failAt ELSE failedAt
         /\ bootResult' = IF run.ok THEN RubyLspCommand ELSE "CalledProcessError"

\* RunSetup with the checks of lines 73-76 left out.
RunSetupUnchecked(platform, hasBundle, hasGem, failAt) ==
    IF platform \notin ValidPlatforms THEN BootFails("AssertionError: platform")
    ELSE IF manifest.description = Missing THEN BootFails("KeyError")
    ELSE InstallOrSkip(failAt)

\* lines 51-92 on a host of the given platform, with or without bundle and
\* gem on PATH, where the failAt-th install command exits non-zero.
RunSetup(platform, hasBundle, hasGem, failAt) ==
    IF platform \notin ValidPlatforms THEN BootFails("AssertionError: platform")
    ELSE IF manifest.description = Missing THEN BootFails("KeyError")
    ELSE IF ~hasBundle THEN BootFails("AssertionError: bundle")
    ELSE IF ~hasGem THEN BootFails("AssertionError: gem")
    ELSE InstallOrSkip(failAt)

\* One invocation of setup_runtime_dependencies on the host, whose platform
\* is fixed and whose PATH may or may not hold bundle and gem this time.
SetupRuntimeDependencies ==
    /\ invocations < MaxInvocations
    /\ invocations' = invocations + 1
    /\ \E hasBundle \in BOOLEAN, hasGem \in BOOLEAN, failAt \in 0..MaxDeps :
         /\ bootEnv' = [bootEnv EXCEPT !.hasBundle = hasBundle, !.hasGem = hasGem]
         /\ RunSetup(bootEnv.platform, hasBundle, hasGem, failAt)
    /\ UNCHANGED <<manifest, sessionVars, paramVars, sharedVars>>

(***************************************************************************)
(* start_server entered by two callers on the same instance (lines         *)
(* 146-172, every line of which works on the one self.server and the one   *)
(* self.server_ready). The coroutines interleave at their awaits.          *)
(***************************************************************************)
Callers == {"A", "B"}

\* Positions at which a caller's session relies on the child process.
Using == {"started", "awaitInitialize", "gotResponse", "awaitReady", "body",
          "awaitShutdown", "stopping"}

InitShared ==
    /\ cpc = [c \in Callers |-> "unstarted"]
    /\ cproc = "none"
    /\ cready = FALSE
    /\ cstarts = 0

\* Caller c moves from position from to position to.
Move(c, from, to) ==
    /\ cpc[c] = from
    /\ cpc' = [cpc EXCEPT ![c] = to]

\* lines 146-151
CRegisterHandlers ==
    \E c \in Callers :
      /\ Move(c, "unstarted", "registered")
      /\ UNCHANGED <<cproc, cready, cstarts, sessionVars, bootVars, paramVars>>

\* lines 153-155: self.server.start() launches the child; self.server holds it.
CServerStart ==
    \E c \in Callers :
      /\ Move(c, "registered", "started")
      /\ cproc' = "running"
      /\ cstarts' = cstarts + 1
      /\ UNCHANGED <<cready, sessionVars, bootVars, paramVars>>

\* lines 156-163
CSendInitialize ==
    \E c \in Callers :
      /\ Move(c, "started", "awaitInitialize")
      /\ GetInitializeParams(ShippedTemplate, RepositoryRootPath).ok
      /\ UNCHANGED <<cproc, cready, cstarts, sessionVars, bootVars, paramVars>>

\* line 163: the response arrives
CInitializeResponse ==
    \E c \in Callers :
      /\ Move(c, "awaitInitialize", "gotResponse")
      /\ cproc = "running"
      /\ UNCHANGED <<cproc, cready, cstarts, sessionVars, bootVars, paramVars>>

\* lines 165-168
CNotifyInitialized ==
    \E c \in Callers :
      /\ Move(c, "gotResponse", "awaitReady")
      /\ UNCHANGED <<cproc, cready, cstarts, sessionVars, bootVars, paramVars>>

\* lines 141-144: a log message with the marker is dispatched
CLogMessage ==
    /\ cproc = "running"
    /\ \E msg \in Messages : cready' = window_log_message(cready, msg)
    /\ UNCHANGED <<cpc, cproc, cstarts, sessionVars, bootVars, paramVars>>

\* lines 168-169
CServerReadyWait ==
    \E c \in Callers :
      /\ Move(c, "awaitReady", "body")
      /\ cready
      /\ UNCHANGED <<cproc, cready, cstarts, sessionVars, bootVars, paramVars>>

\* lines 169-171
CBodyReturn ==
    \E c \in Callers :
      /\ Move(c, "body", "awaitShutdown")
      /\ UNCHANGED <<cproc, cready, cstarts, sessionVars, bootVars, paramVars>>

\* line 171: the shutdown request is acknowledged
CShutdownAck ==
    \E c \in Callers :
      /\ Move(c, "awaitShutdown", "stopping")
      /\ cproc = "running"
      /\ UNCHANGED <<cproc, cready, cstarts, sessionVars, bootVars, paramVars>>

\* line 172: self.server.stop() stops the child self.server holds
CServerStop ==
    \E c \in Callers :
      /\ Move(c, "stopping", "done")
      /\ cproc' = "stopped"
      /\ UNCHANGED <<cready, cstarts, sessionVars, bootVars, paramVars>>

(***************************************************************************)
(* Specifications.                                                         *)
(***************************************************************************)
Init == InitSession /\ IdleBoot /\ IdleParams /\ InitShared

SharedInit == InitSession /\ IdleBoot /\ IdleParams /\ InitShared
SharedNext ==
    \/ CRegisterHandlers
    \/ CServerStart
    \/ CSendInitialize
    \/ CInitializeResponse
    \/ CNotifyInitialized
    \/ CLogMessage
    \/ CServerReadyWait
    \/ CBodyReturn
    \/ CShutdownAck
    \/ CServerStop
SpecShared == SharedInit /\ [][SharedNext]_vars

Next ==
    \/ RegisterHandlers
    \/ ServerStart
    \/ SendInitialize
    \/ InitializeResponse
    \/ InitializeError
    \/ InitializeTimeout
    \/ NotifyInitialized
    \/ ServerReadyWait
    \/ Query
    \/ BodyReturn
    \/ BodyRaise
    \/ ShutdownAck
    \/ ShutdownError
    \/ ShutdownTimeout
    \/ ServerStop
    \/ ProcessExit
    \/ LogMessage
    \/ Progress
    \/ PublishDiagnostics
    \/ ExecuteClientCommand

Spec == Init /\ [][Next]_vars

\* The steps of the start_server coroutine itself (not of the server or the
\* caller): what the event loop runs once the coroutine can go on.
CoroutineStep ==
    \/ ServerStart
    \/ SendInitialize
    \/ InitializeTimeout
    \/ NotifyInitialized
    \/ ServerReadyWait
    \/ ShutdownTimeout
    \/ ServerStop

\* The event loop resumes a coroutine that can go on, and a timer that was
\* armed fires.
FairSpec ==
    /\ Spec
    /\ WF_vars(ServerStart)
    /\ WF_vars(SendInitialize)
    /\ WF_vars(InitializeTimeout)
    /\ WF_vars(NotifyInitialized)
    /\ WF_vars(ServerReadyWait)
    /\ WF_vars(ShutdownTimeout)
    /\ WF_vars(ServerStop)

BootInit == InitSession /\ InitBoot /\ IdleParams /\ InitShared
BootNext == SetupRuntimeDependencies
SpecBoot == BootInit /\ [][BootNext]_vars

ParamsInit == InitSession /\ IdleBoot /\ InitParams /\ InitShared
ParamsNext == BuildParams
SpecParams == ParamsInit /\ [][ParamsNext]_vars

(***************************************************************************)
(* Properties.                                                             *)
(***************************************************************************)
NotCalled == [ok |-> FALSE, error |-> "not called"]

\* C1: whenever the scope has been left after its body was entered (the body
\* returned or raised), the shutdown was driven and the child process is no
\* longer running.
C1_ScopeExitStopsProcess ==
    (bodyEntered /\ pc \in {"done", "raised"}) =>
        (shutdownReq # "unsent" /\ procState # "running")

\* C2: when scope entry fails after the server process was started, the child
\* process is not left running.
C2_FailedEntryStopsProcess ==
    (pc = "raised" /\ ~bodyEntered /\ procAtRaise) => procState # "running"

\* C3: the initialized notification has been sent only if the response to the
\* initialize request has been received.
C3_InitializedAfterResponse ==
    initializedSent => initReq = "responded"

C3_Witness == initializedSent /\ initReq = "responded" /\ pc = "awaitReady"

\* C4: the scope body runs only when the process has been started, the
\* initialize response received, initialized sent and server_ready set, and
\* never once shutdown has begun; queries are issued only from the body.
C4_BodyOnlyWhenRunning ==
    /\ pc = "body" =>
         /\ procState # "none"
         /\ initReq = "responded"
         /\ initializedSent
         /\ server_ready
         /\ shutdownReq = "unsent"
         /\ ~exitSent
    /\ queries > 0 => bodyEntered
    /\ pc \in {"awaitShutdown", "stopping", "done"} => shutdownReq # "unsent"

C4_Witness == pc = "body" /\ queries > 0 /\ procState = "running"

\* C5: within a session server_ready, once set, stays set whatever inbound
\* message is dispatched next.
C5_ReadyMonotonic ==
    [][(server_ready /\ session' = session) => server_ready']_vars

C5_Witness ==
    server_ready /\ markerSeen >= 2 /\ lastInbound \in {"log-", "progress"}

\* C6: server_ready is unset when a session is entered, and the body of a
\* session is reached only after a marker was seen in that session.
C6_ReadyFreshPerSession ==
    /\ (pc = "registered" /\ earlier \in {"none", "done"}) => ~server_ready
    /\ (pc = "body" /\ earlier \in {"none", "done"}) => markerSeen > 0

\* C7: every install command is executed at most once over all invocations,
\* and an invocation that finds the directory existing spawns nothing,
\* changes nothing and returns the launch command.
C7_BootstrapIdempotent ==
    /\ [](\A i \in 1..MaxDeps : execCount[i] <= 1)
    /\ [][(invocations' # invocations /\ dirExists) =>
            /\ execCount' = execCount
            /\ dirExists'
            /\ bootSpawns' = 0
            /\ bootResult' \in {RubyLspCommand, "AssertionError: platform",
                                "KeyError", "AssertionError: bundle",
                                "AssertionError: gem"}
            /\ bootFoundDir' => bootResult' = RubyLspCommand]_vars

C7_Witness ==
    /\ invocations >= 2
    /\ bootFoundDir
    /\ bootResult = RubyLspCommand
    /\ \E i \in 1..MaxDeps : execCount[i] = 1

\* C8: a configuration error of the parameter builder is never raised once
\* the child process has been started.
C8_ConfigErrorBeforeProcess ==
    raised \in {"AssertionError", "KeyError"} => ~procAtRaise

\* C9: _get_initialize_params either returns the fully substituted
\* parameters, or fails; it fails whenever one of the four fields does not
\* hold its sentinel.
C9_SubstitutionTotal ==
    paramsResult # NotCalled =>
      /\ paramsResult.ok =>
           /\ paramsResult.d.processId = ProcessId
           /\ paramsResult.d.description = Missing
           /\ paramsResult.d.rootPath = AbsPath(repoPath)
           /\ paramsResult.d.rootUri = AsUri(repoPath)
           /\ paramsResult.d.wfUri = AsUri(repoPath)
           /\ paramsResult.d.wfName = Basename(repoPath)
           /\ \A f \in {"rootPath", "rootUri", "wfUri", "wfName"} :
                paramsResult.d[f] \notin Sentinels
           /\ repoPath = <<"home", "repo">> =>
                /\ paramsResult.d.rootPath = "/home/repo"
                /\ paramsResult.d.rootUri = "file:///home/repo"
                /\ paramsResult.d.wfName = "repo"
      /\ (\/ template.rootPath # "$rootPath"
          \/ template.rootUri # "$rootUri"
          \/ template.wfUri # "$uri"
          \/ template.wfName # "$name") => ~paramsResult.ok

C9_Witness ==
    /\ paramsResult # NotCalled
    /\ paramsResult.ok
    /\ repoPath = <<"home", "repo">>

\* C10: whenever the child process is live or the initialize request has
\* been sent, all four intercepted methods have a registered handler, and no
\* inbound message has found none.
C10_HandlersBeforeStart ==
    /\ (procState = "running" \/ initReq # "unsent") =>
         {"window/logMessage", "$/progress", "textDocument/publishDiagnostics",
          "workspace/executeClientCommand"} \subseteq handlers
    /\ ~unhandled

C10_Witness ==
    /\ session = 1
    /\ pc = "started"
    /\ initReq = "unsent"
    /\ lastInbound = "progress"

\* C11: when the child process has exited while start_server waits for
\* server_ready, the coroutine can go on (the wait ends); it is not blocked
\* with nothing left that could resume it.
C11_ReadyWaitEndsOnTransportError ==
    (pc = "awaitReady" /\ procState = "exited" /\ ~server_ready) =>
        ENABLED CoroutineStep

C13_ShutdownFailureFallsBack ==
    shutdownReq \in {"error", "timeout"} =>
        (raised = "none" /\ pc # "raised" /\
         (pc = "done" => procState # "running"))

\* C14: the process is stopped only after the exit notification, which is
\* sent only after the shutdown request was acknowledged, which is sent only
\* after the body has finished; a scope left normally has done all three.
C14_ShutdownOrder ==
    /\ procState = "stopped" => exitSent
    /\ exitSent => shutdownReq = "acked"
    /\ shutdownReq # "unsent" => (bodyEntered /\ pc # "body")
    /\ pc = "done" =>
         (shutdownReq = "acked" /\ exitSent /\ procState = "stopped")

C14_Witness ==
    pc = "done" /\ shutdownReq = "acked" /\ exitSent /\ procState = "stopped"

\* C17: server_ready changes only in the dispatch of a window/logMessage
\* whose text contains the marker; the dispatch of any other inbound message
\* leaves server_ready and the handshake state unchanged, and
\* workspace/executeClientCommand is answered with the empty list.
C17_OnlyMarkerSetsReady ==
    [][/\ server_ready' # server_ready =>
            (inbound' = inbound + 1 /\ lastInbound' = "log+")
       /\ (inbound' = inbound + 1 /\ lastInbound' # "log+") =>
            /\ server_ready' = server_ready
            /\ UNCHANGED <<pc, procState, initReq, initializedSent,
                           completions_available, shutdownReq, exitSent, raised,
                           handlers>>
       /\ (inbound' = inbound + 1 /\ lastInbound' = "executeClientCommand") =>
            lastReply' = <<>>]_vars

C17_Witness ==
    /\ pc = "awaitReady"
    /\ ~server_ready
    /\ inbound >= 3
    /\ lastInbound = "executeClientCommand"
    /\ lastReply = <<>>

EnvOk ==
    /\ bootEnv.platform \in ValidPlatforms
    /\ bootEnv.hasBundle
    /\ bootEnv.hasGem

\* C15: when the k-th install command of a fresh directory exits non-zero,
\* the invocation raises, exactly the commands 1..k have been executed, in
\* order and once each, no launch command is returned and the directory
\* stays in place.
C15_InstallAbortsAtFailure ==
    /\ [](failedAt > 0 =>
            /\ dirExists
            /\ \A i \in 1..MaxDeps :
                 execCount[i] = (IF i <= failedAt THEN 1 ELSE 0))
    /\ [](\A i, j \in 1..MaxDeps : (i < j /\ execCount[j] > 0) => execCount[i] > 0)
    /\ [][(failedAt = 0 /\ failedAt' > 0) =>
            /\ ~dirExists
            /\ bootResult' = "CalledProcessError"
            /\ bootSpawns' = failedAt']_vars

C15_Witness ==
    /\ failedAt = 1
    /\ Len(manifest.deps) >= 2
    /\ bootResult = "CalledProcessError"
    /\ dirExists
    /\ execCount[1] = 1
    /\ execCount[2] = 0

\* C16: an invocation on an unsupported platform, or without bundle or gem on
\* PATH, fails and leaves the directory and the executed commands as they were.
C16_ConfigErrorsBeforeMutation ==
    [][(invocations' # invocations /\ ~EnvOk') =>
         /\ dirExists' = dirExists
         /\ execCount' = execCount
         /\ bootSpawns' = 0
         /\ bootResult' \in {"AssertionError: platform", "AssertionError: bundle",
                            "AssertionError: gem", "KeyError"}]_vars

C16_Witness ==
    /\ invocations > 0
    /\ bootEnv.platform \in ValidPlatforms
    /\ ~bootEnv.hasBundle
    /\ bootResult = "AssertionError: bundle"
    /\ ~dirExists

\* C20 as stated: once a bootstrap has failed at an install command, every
\* later invocation executes nothing and returns the launch command.
C20_LaterInvocationsReturnCommand ==
    failedAt > 0 =>
        /\ bootResult \in {"CalledProcessError", RubyLspCommand}
        /\ \A i \in 1..MaxDeps : i > failedAt => execCount[i] = 0

\* C20 amended: once a bootstrap has failed at an install command, every
\* later invocation executes nothing, so the commands after the failed one
\* are never executed, and it returns the launch command whenever the
\* platform, bundle and gem checks pass.
C20_LaterInvocationsSkipInstall ==
    failedAt > 0 =>
        /\ \A i \in 1..MaxDeps : i > failedAt => execCount[i] = 0
        /\ execCount[failedAt] = 1
        /\ bootResult # "CalledProcessError" =>
             /\ bootSpawns = 0
             /\ EnvOk => (bootResult = RubyLspCommand /\ bootFoundDir)

C20_Witness ==
    /\ failedAt = 1
    /\ Len(manifest.deps) >= 2
    /\ invocations >= 2
    /\ bootResult = RubyLspCommand
    /\ bootFoundDir
    /\ execCount[2] = 0

\* C18: no two callers' sessions rely on the child process self.server
\* holds at the same time, and the process is never stopped while a caller's
\* session still relies on it.
C18_ExclusiveOwnership ==
    /\ \A c, d \in Callers :
         (c # d /\ cpc[c] \in Using) => cpc[d] \notin Using
    /\ cproc = "stopped" => \A c \in Callers : cpc[c] \notin Using

====
